---- MODULE Spec2Model ----
(***************************************************************************)
(* Model of src/app.py: the Slack bot's event-to-response pipeline         *)
(* (process_event and its two listeners) and the pure helpers it uses      *)
(* (refine_query, search_slack, format_combined_results, get_workflows,    *)
(* summarize_thread).                                                      *)
(*                                                                         *)
(* A Python str is a finite sequence of symbols.  A symbol is one          *)
(* character (" ", "\n", ">") or an indivisible run of characters          *)
(* ("<@", "from:@", a word).  External calls (Slack Web API, OpenAI) are   *)
(* nondeterministic: each either returns a value or raises.                *)
(***************************************************************************)
EXTENDS Naturals, Integers, Sequences, FiniteSets, TLC

VARIABLES
    pc,             \* position of the handler: "idle", a call site of process_event, "returned", "raised"
    event_count,    \* module global event_count
    event,          \* the event being handled
    thread_ts,      \* process_event local thread_ts
    bot_user_id,    \* process_event local bot_user_id
    message_context,\* process_event local message_context
    user_name,      \* process_event local user_name
    refined_intent, \* process_event local refined_intent
    workflows,      \* process_event local workflows
    refined_query,  \* process_event local refined_query
    slack_results,  \* process_event local slack_results
    summary,        \* process_event local response (summarizer output)
    cal_response,   \* process_event local cal_response
    calls,          \* external calls made in this run, in order: [site, ok, ts]
    posts,          \* messages delivered to Slack in this run, in order
    probe           \* pure-function harness: [fn, ...inputs..., out]

vars == <<pc, event_count, event, thread_ts, bot_user_id, message_context,
          user_name, refined_intent, workflows, refined_query, slack_results,
          summary, cal_response, calls, posts, probe>>

pipeVars == <<pc, event_count, event, thread_ts, bot_user_id, message_context,
              user_name, refined_intent, workflows, refined_query,
              slack_results, summary, cal_response, calls, posts>>

(***************************************************************************)
(* Bounds                                                                  *)
(***************************************************************************)
MaxEvents == 2      \* events delivered in one behaviour
MaxThread == 6      \* messages a thread-replies fetch may return
MaxRawLen == 5      \* symbols in a raw text handed to refine_query
MaxMatches == 6     \* matches handed to format_combined_results

None == "None"      \* Python None / absent key

(***************************************************************************)
(* Python str operations                                                   *)
(***************************************************************************)
Whitespace == {" ", "\n"}

RECURSIVE lstrip(_)
lstrip(s) ==
    IF s # <<>> /\ Head(s) \in Whitespace THEN lstrip(Tail(s)) ELSE s

RECURSIVE rstrip(_)
rstrip(s) ==
    IF s # <<>> /\ s[Len(s)] \in Whitespace
    THEN rstrip(SubSeq(s, 1, Len(s) - 1))
    ELSE s

\* str.strip()
strip(s) == rstrip(lstrip(s))

\* s.startswith(sub)
StartsWith(s, sub) ==
    /\ Len(sub) <= Len(s)
    /\ SubSeq(s, 1, Len(sub)) = sub

\* sub in s
Contains(s, sub) ==
    \E i \in 1..(Len(s) - Len(sub) + 1) : SubSeq(s, i, i + Len(sub) - 1) = sub

\* s.replace(old, ""), old non-empty: one left-to-right pass over
\* non-overlapping occurrences
RECURSIVE replace_empty(_, _)
replace_empty(s, old) ==
    IF s = <<>> THEN <<>>
    ELSE IF StartsWith(s, old)
         THEN replace_empty(SubSeq(s, Len(old) + 1, Len(s)), old)
         ELSE <<Head(s)>> \o replace_empty(Tail(s), old)

\* "\n".join(parts)
RECURSIVE join(_)
join(parts) ==
    IF parts = <<>> THEN <<>>
    ELSE IF Len(parts) = 1 THEN parts[1]
         ELSE parts[1] \o <<"\n">> \o join(Tail(parts))

\* s.split("\n")
RECURSIVE splitlines(_)
splitlines(s) ==
    IF \A i \in 1..Len(s) : s[i] # "\n" THEN <<s>>
    ELSE LET i == CHOOSE k \in 1..Len(s) :
                     s[k] = "\n" /\ \A j \in 1..(k - 1) : s[j] # "\n"
         IN <<SubSeq(s, 1, i - 1)>> \o splitlines(SubSeq(s, i + 1, Len(s)))

\* seq[:n]
Take(seq, n) == SubSeq(seq, 1, IF Len(seq) < n THEN Len(seq) ELSE n)

RECURSIVE SeqsUpTo(_, _)
SeqsUpTo(S, n) ==
    IF n = 0 THEN {<<>>}
    ELSE LET shorter == SeqsUpTo(S, n - 1)
         IN shorter \cup {Append(s, x) : s \in {t \in shorter : Len(t) = n - 1}, x \in S}

(***************************************************************************)
(* refine_query                                                            *)
(***************************************************************************)
\* f"<@{bot_user_id}>"
MentionToken(bot) == <<"<@">> \o bot \o <<">">>

\* "from:@"
FromMarker == <<"from:@">>

\* An OpenAI completion: raised, or returned content
LlmFailed == [ok |-> FALSE, text |-> <<>>]
LlmReturned(t) == [ok |-> TRUE, text |-> t]

\* lines 35-36: the query sent to the model and returned on fallback
CleanedQuery(user_query, bot) ==
    IF Contains(user_query, bot)
    THEN strip(replace_empty(user_query, MentionToken(bot)))
    ELSE user_query

\* variant: only an empty output is rejected
Restrictive_empty_only(refined) == refined = <<>>

\* line 52: the model's output is rejected
Restrictive(refined) == Contains(refined, FromMarker) \/ refined = <<>>

refine_query(user_query, bot, llm) ==
    LET cleaned == CleanedQuery(user_query, bot)
        refined == strip(llm.text)
    IN IF ~llm.ok THEN cleaned
       ELSE IF Restrictive(refined) THEN cleaned
       ELSE refined

(***************************************************************************)
(* search_slack, get_workflows, summarize_thread                           *)
(***************************************************************************)
\* An API call: raised, or returned a value
Raised == [ok |-> FALSE, value |-> <<>>]
Returned(v) == [ok |-> TRUE, value |-> v]

\* lines 65-77: the matches of the response, [] when search_all raises
search_slack(api) == IF api.ok THEN api.value ELSE <<>>

\* lines 156-175: the listed workflows, [] when admin_workflows_search raises
get_workflows(api) == IF api.ok THEN api.value ELSE <<>>

(***************************************************************************)
(* format_combined_results                                                 *)
(***************************************************************************)
\* str(message_num)
Numeral(k) == <<"1", "2", "3", "4", "5", "6", "7", "8", "9">>[k]

\* lines 118 and 104: slack_results[:5]
TopResults == 5

NoResultsGist == <<"I couldn't find any relevant messages in Slack.">>
SummaryErrorGist == <<"I found some relevant messages in Slack, but I couldn't generate a summary right now. Here are the sources: ">>
NoResultsLinks == <<"_No relevant messages found in Slack._">>
LinksHeader == <<"Relevant messages: ">>

\* line 103: one match rendered for the gist (an absent text is '')
GistEntry(msg) ==
    <<"- Channel: #", msg.channel, ", User: <@",
      IF msg.user = None THEN "unknown" ELSE msg.user,
      ">, Message: ">> \o strip(msg.text)

\* lines 124-128: one numbered reference link
LinkEntry(msg, message_num) ==
    <<"<", IF msg.permalink = None THEN "https://fake.link" ELSE msg.permalink,
      "|[", Numeral(message_num), "]>, ">>

RECURSIVE ConcatAll(_)
ConcatAll(parts) ==
    IF parts = <<>> THEN <<>> ELSE Head(parts) \o ConcatAll(Tail(parts))

\* lines 98-112: msg['channel']['name'] raises for a match without a channel
plain_text_results(results) ==
    IF results = <<>> THEN NoResultsGist
    ELSE LET top == Take(results, TopResults)
         IN IF \E i \in 1..Len(top) : top[i].channel = None
            THEN SummaryErrorGist
            ELSE join([i \in 1..Len(top) |-> GistEntry(top[i])])

\* variant: the loop runs over every match
search_links_unbounded(results) ==
    IF results = <<>> THEN NoResultsLinks
    ELSE LinksHeader \o ConcatAll([i \in 1..Len(results) |-> LinkEntry(results[i], i)])

\* lines 115-130
search_links(results) ==
    IF results = <<>> THEN NoResultsLinks
    ELSE LET top == Take(results, TopResults)
         IN LinksHeader \o ConcatAll([i \in 1..Len(top) |-> LinkEntry(top[i], i)])

format_combined_results(results) ==
    <<plain_text_results(results), search_links(results)>>

(***************************************************************************)
(* Inputs: events delivered by Bolt and results of the external calls      *)
(***************************************************************************)
BotUserId == <<"B">>                 \* auth_test()["user_id"]

Timestamps == {"T1", "T2"}
Subtypes == {None, "message_changed", "message_deleted"}
EventTexts == {<<"<@", "B", ">", " ", "hi">>, <<" ", "hi", "\n">>}

\* app_mention events carry no channel_type; message events do
Events ==
    [listener : {"app_mention"}, channel_type : {None},
     ts : Timestamps, thread_ts : {None, "T1"}, subtype : Subtypes,
     user : {None, "U1"}, text : EventTexts]
    \cup
    [listener : {"message"}, channel_type : {"im", "channel"},
     ts : Timestamps, thread_ts : {None, "T1"}, subtype : Subtypes,
     user : {None, "U1"}, text : EventTexts]

NoEvent ==
    [listener |-> None, channel_type |-> None, ts |-> None, thread_ts |-> None,
     subtype |-> None, user |-> None, text |-> <<>>]

\* conversations_replies: the thread's messages, in platform order
ThreadMessage(k) == [user |-> "U1", text |-> <<" ", "msg", Numeral(k)>>]
Replies == {[k \in 1..n |-> ThreadMessage(k)] : n \in 0..MaxThread}

\* users_info(...).get("user", {}).get("real_name")
RealNames == {"Ann", None}

\* the classification completion's content
SummarizeLabel == <<"Summarize", " ", "Thread">>
IntentTexts ==
    {SummarizeLabel, <<" ">> \o SummarizeLabel \o <<"\n">>,
     SummarizeLabel \o <<" ", "please">>, <<"Other">>, <<"Maybe?">>, <<>>,
     <<"Slack", " ", "Search">>}

SummaryTexts == {<<"thread", " ", "summary", "\n">>}
ComposeTexts == {<<" ", "reply">>}
RefineCompletions ==
    {LlmFailed, LlmReturned(<<"hi", " ">>), LlmReturned(<<"from:@", "x", " ", "hi">>)}

Workflow == [title |-> "Unknown Title", description |-> "No Description"]
WorkflowResults == {Raised, Returned(<<Workflow>>)}

Match(link) ==
    [channel |-> "general", user |-> "U1", text |-> <<"hello", " ">>, permalink |-> link]
SearchResults ==
    {Raised, Returned(<<Match("p1")>>),
     Returned([k \in 1..MaxMatches |-> Match(IF k = 1 THEN "p1" ELSE "p2")])}

ApologyText == <<"I'm sorry, I couldn't process your request.">>
FeatureMissingText == <<"I don't have that skill yet. Tell Naseer to get on it!">>

(***************************************************************************)
(* process_event and its listeners                                         *)
(***************************************************************************)
\* line 210: thread_messages[:5]
ContextLimit == 5

\* lines 207-212
RenderContext(thread_messages) ==
    LET top == Take(thread_messages, ContextLimit)
    IN join([i \in 1..Len(top) |->
                <<"<@", top[i].user, ">: ">> \o strip(top[i].text)])

\* the log of external calls: site, outcome, thread anchor passed, text returned
Call(site, ok, ts, ret) ==
    calls' = Append(calls, [site |-> site, ok |-> ok, ts |-> ts, ret |-> ret])
Post(kind, text, ts) ==
    posts' = Append(posts, [kind |-> kind, text |-> text, thread_ts |-> ts])

\* variant: the guard names message_deleted only
Ignored_deleted_only(e) == e.subtype = "message_deleted"

\* line 189: events that process_event ignores
Ignored(e) == e.subtype = "message_deleted" \/ e.subtype = "message_changed"

\* line 181: the anchor every reply of the run is addressed to
ReplyAnchor(e) == e.ts

\* lines 216-224, reached when the context is built
AfterContext ==
    IF event.user # None
    THEN pc' = "users_info" /\ user_name' = user_name
    ELSE pc' = "classify" /\ user_name' = "unknown"

Locals == <<bot_user_id, message_context, user_name, refined_intent, workflows,
            refined_query, slack_results, summary, cal_response>>

\* a listener is invoked with event e: handle_mention (lines 305-310) or
\* handle_direct_message (lines 313-319), up to the guard of process_event
Deliver(e) ==
    /\ pc = "idle"
    /\ event_count < MaxEvents
    /\ event' = e
    /\ IF e.listener = "message" /\ e.channel_type # "im"
       THEN /\ pc' = "returned"
            /\ UNCHANGED <<event_count, thread_ts>>
       ELSE /\ event_count' = event_count + 1
            /\ thread_ts' = ReplyAnchor(e)
            /\ pc' = IF Ignored(e) THEN "returned" ELSE "auth_test"
    /\ UNCHANGED <<Locals, calls, posts, probe>>

\* line 193
AuthTest(ok) ==
    /\ pc = "auth_test"
    /\ Call("auth_test", ok, None, <<>>)
    /\ IF ok
       THEN /\ bot_user_id' = BotUserId
            /\ IF event.thread_ts # None
               THEN pc' = "conversations_replies" /\ user_name' = user_name
               ELSE AfterContext
       ELSE /\ pc' = "say_apology"
            /\ UNCHANGED <<bot_user_id, user_name>>
    /\ UNCHANGED <<event_count, event, thread_ts, message_context, refined_intent,
                   workflows, refined_query, slack_results, summary, cal_response,
                   posts, probe>>

\* lines 199-212
ConversationsReplies(api) ==
    /\ pc = "conversations_replies"
    /\ Call("conversations_replies", api.ok, event.thread_ts, <<>>)
    /\ IF api.ok
       THEN /\ message_context' = RenderContext(api.value)
            /\ AfterContext
       ELSE /\ pc' = "say_apology"
            /\ UNCHANGED <<message_context, user_name>>
    /\ UNCHANGED <<event_count, event, thread_ts, bot_user_id, refined_intent,
                   workflows, refined_query, slack_results, summary, cal_response,
                   posts, probe>>

\* lines 218-220
UsersInfo(api) ==
    /\ pc = "users_info"
    /\ Call("users_info", api.ok, None, <<>>)
    /\ IF api.ok
       THEN pc' = "classify" /\ user_name' = api.value
       ELSE pc' = "say_apology" /\ user_name' = user_name
    /\ UNCHANGED <<event_count, event, thread_ts, bot_user_id, message_context,
                   refined_intent, workflows, refined_query, slack_results,
                   summary, cal_response, posts, probe>>

\* variant: the label is matched as a prefix
IsSummarize_prefix(intent) == StartsWith(intent, SummarizeLabel)

\* line 250: the responder chosen for an intent
IsSummarize(intent) == intent = SummarizeLabel

\* lines 229-250
Classify(llm) ==
    /\ pc = "classify"
    /\ Call("classify", llm.ok, None, llm.text)
    /\ IF llm.ok
       THEN /\ refined_intent' = strip(llm.text)
            /\ pc' = IF IsSummarize(strip(llm.text))
                     THEN "summarize_thread" ELSE "get_workflows"
       ELSE /\ pc' = "say_apology"
            /\ UNCHANGED refined_intent
    /\ UNCHANGED <<event_count, event, thread_ts, bot_user_id, message_context,
                   user_name, workflows, refined_query, slack_results, summary,
                   cal_response, posts, probe>>

\* lines 134-150, called at line 251
SummarizeThread(llm) ==
    /\ pc = "summarize_thread"
    /\ Call("summarize_thread", llm.ok, None, llm.text)
    /\ IF llm.ok
       THEN pc' = "say_summary" /\ summary' = strip(llm.text)
       ELSE pc' = "say_apology" /\ summary' = summary
    /\ UNCHANGED <<event_count, event, thread_ts, bot_user_id, message_context,
                   user_name, refined_intent, workflows, refined_query,
                   slack_results, cal_response, posts, probe>>

\* line 252
SaySummary(ok) ==
    /\ pc = "say_summary"
    /\ Call("say_summary", ok, thread_ts, <<>>)
    /\ IF ok
       THEN pc' = "returned" /\ Post("summary", summary, thread_ts)
       ELSE pc' = "say_apology" /\ posts' = posts
    /\ UNCHANGED <<event_count, event, thread_ts, Locals, probe>>

\* line 256
GetWorkflows(api) ==
    /\ pc = "get_workflows"
    /\ Call("admin_workflows_search", api.ok, None, <<>>)
    /\ workflows' = get_workflows(api)
    /\ pc' = "refine_query"
    /\ UNCHANGED <<event_count, event, thread_ts, bot_user_id, message_context,
                   user_name, refined_intent, refined_query, slack_results,
                   summary, cal_response, posts, probe>>

\* line 263 (user_message is the stripped event text, line 192)
RefineQuery(llm) ==
    /\ pc = "refine_query"
    /\ Call("refine_query", llm.ok, None, llm.text)
    /\ refined_query' = refine_query(strip(event.text), bot_user_id, llm)
    /\ pc' = "search_slack"
    /\ UNCHANGED <<event_count, event, thread_ts, bot_user_id, message_context,
                   user_name, refined_intent, workflows, slack_results, summary,
                   cal_response, posts, probe>>

\* variant: search_slack without its try/except
SearchSlack_propagates(api) ==
    /\ pc = "search_slack"
    /\ Call("search_all", api.ok, None, <<>>)
    /\ IF api.ok
       THEN pc' = "compose" /\ slack_results' = api.value
       ELSE pc' = "say_apology" /\ slack_results' = slack_results
    /\ UNCHANGED <<event_count, event, thread_ts, bot_user_id, message_context,
                   user_name, refined_intent, workflows, refined_query, summary,
                   cal_response, posts, probe>>

\* lines 264-265
SearchSlack(api) ==
    /\ pc = "search_slack"
    /\ Call("search_all", api.ok, None, <<>>)
    /\ slack_results' = search_slack(api)
    /\ pc' = "compose"
    /\ UNCHANGED <<event_count, event, thread_ts, bot_user_id, message_context,
                   user_name, refined_intent, workflows, refined_query, summary,
                   cal_response, posts, probe>>

\* lines 267-284
Compose(llm) ==
    /\ pc = "compose"
    /\ Call("compose", llm.ok, None, llm.text)
    /\ IF llm.ok
       THEN pc' = "chat_postMessage" /\ cal_response' = strip(llm.text)
       ELSE pc' = "say_apology" /\ cal_response' = cal_response
    /\ UNCHANGED <<event_count, event, thread_ts, bot_user_id, message_context,
                   user_name, refined_intent, workflows, refined_query,
                   slack_results, summary, posts, probe>>

\* line 286: f"{cal_response}\n{references}"
BlockText == cal_response \o <<"\n">> \o format_combined_results(slack_results)[2]

\* variant: the feature-missing reply follows the block post unconditionally
ChatPostMessage_fallthrough(ok) ==
    /\ pc = "chat_postMessage"
    /\ Call("chat_postMessage", ok, thread_ts, <<>>)
    /\ pc' = "say_feature_missing"
    /\ IF ok THEN Post("blocks", BlockText, thread_ts) ELSE posts' = posts
    /\ UNCHANGED <<event_count, event, thread_ts, Locals, probe>>

\* lines 285-297
ChatPostMessage(ok) ==
    /\ pc = "chat_postMessage"
    /\ Call("chat_postMessage", ok, thread_ts, <<>>)
    /\ IF ok
       THEN pc' = "returned" /\ Post("blocks", BlockText, thread_ts)
       ELSE pc' = "say_feature_missing" /\ posts' = posts
    /\ UNCHANGED <<event_count, event, thread_ts, Locals, probe>>

\* line 298: a raise here is inside the outer try and reaches line 300
SayFeatureMissing(ok) ==
    /\ pc = "say_feature_missing"
    /\ Call("say_feature_missing", ok, thread_ts, <<>>)
    /\ IF ok
       THEN pc' = "returned" /\ Post("feature_missing", FeatureMissingText, thread_ts)
       ELSE pc' = "say_apology" /\ posts' = posts
    /\ UNCHANGED <<event_count, event, thread_ts, Locals, probe>>

\* lines 300-302: a raise here leaves process_event and the listener
SayApology(ok) ==
    /\ pc = "say_apology"
    /\ Call("say_apology", ok, thread_ts, <<>>)
    /\ IF ok
       THEN pc' = "returned" /\ Post("apology", ApologyText, thread_ts)
       ELSE pc' = "raised" /\ posts' = posts
    /\ UNCHANGED <<event_count, event, thread_ts, Locals, probe>>

\* the listener has ended and its locals are gone; Bolt may deliver the
\* next event
NextEvent ==
    /\ pc \in {"returned", "raised"}
    /\ pc' = "idle"
    /\ event' = NoEvent
    /\ thread_ts' = None
    /\ bot_user_id' = <<>>
    /\ message_context' = <<>>
    /\ user_name' = None
    /\ refined_intent' = <<>>
    /\ workflows' = <<>>
    /\ refined_query' = <<>>
    /\ slack_results' = <<>>
    /\ summary' = <<>>
    /\ cal_response' = <<>>
    /\ calls' = <<>>
    /\ posts' = <<>>
    /\ UNCHANGED <<event_count, probe>>

NoProbe == [fn |-> None]

\* the module as loaded (lines 14-24): no event handled yet
PipelineInit ==
    /\ pc = "idle"
    /\ event_count = 0
    /\ event = NoEvent
    /\ thread_ts = None
    /\ bot_user_id = <<>>
    /\ message_context = <<>>
    /\ user_name = None
    /\ refined_intent = <<>>
    /\ workflows = <<>>
    /\ refined_query = <<>>
    /\ slack_results = <<>>
    /\ summary = <<>>
    /\ cal_response = <<>>
    /\ calls = <<>>
    /\ posts = <<>>

Init == PipelineInit /\ probe = NoProbe

Next ==
    \/ \E e \in Events : Deliver(e)
    \/ \E ok \in BOOLEAN : AuthTest(ok)
    \/ \E api \in {Raised} \cup {Returned(r) : r \in Replies} : ConversationsReplies(api)
    \/ \E api \in {Raised} \cup {Returned(n) : n \in RealNames} : UsersInfo(api)
    \/ \E llm \in {LlmFailed} \cup {LlmReturned(t) : t \in IntentTexts} : Classify(llm)
    \/ \E llm \in {LlmFailed} \cup {LlmReturned(t) : t \in SummaryTexts} : SummarizeThread(llm)
    \/ \E ok \in BOOLEAN : SaySummary(ok)
    \/ \E api \in WorkflowResults : GetWorkflows(api)
    \/ \E llm \in RefineCompletions : RefineQuery(llm)
    \/ \E api \in SearchResults : SearchSlack(api)
    \/ \E llm \in {LlmFailed} \cup {LlmReturned(t) : t \in ComposeTexts} : Compose(llm)
    \/ \E ok \in BOOLEAN : ChatPostMessage(ok)
    \/ \E ok \in BOOLEAN : SayFeatureMissing(ok)
    \/ \E ok \in BOOLEAN : SayApology(ok)
    \/ NextEvent

Spec == Init /\ [][Next]_vars

(***************************************************************************)
(* refine_query on its own: every raw text and model outcome within bounds *)
(***************************************************************************)
RawAlphabet == {"<@", "B", ">", " ", "from:@"}
RawTexts == SeqsUpTo(RawAlphabet, MaxRawLen)

\* a mention token written around a mention token
NestedMention == <<"<@">> \o MentionToken(BotUserId) \o BotUserId \o <<">">>

ProbeCompletions ==
    {LlmFailed} \cup
    {LlmReturned(t) : t \in {<<>>, <<" ">>, <<" ", "q", "\n">>, <<"q", " ", "B">>,
                             <<"from:@", "x", " ", "q">>, <<"q", " ", "from:@">>,
                             MentionToken(BotUserId) \o <<" ", "q">>}}

InitRefine ==
    /\ PipelineInit
    /\ probe \in [fn : {"refine_query"}, user_query : RawTexts \cup {NestedMention},
                  bot : {BotUserId}, llm : ProbeCompletions,
                  done : {FALSE}, out : {<<>>}]

RefineProbe ==
    /\ probe.fn = "refine_query"
    /\ ~probe.done
    /\ probe' = [probe EXCEPT !.done = TRUE,
                              !.out = refine_query(probe.user_query, probe.bot, probe.llm)]
    /\ UNCHANGED pipeVars

NextRefine == RefineProbe

SpecRefine == InitRefine /\ [][NextRefine]_vars

(***************************************************************************)
(* format_combined_results on its own: every match list within bounds      *)
(***************************************************************************)
MatchKinds ==
    {[channel |-> "general", user |-> "U1", text |-> <<"hello", " ">>, permalink |-> "p1"],
     [channel |-> "random", user |-> None, text |-> <<" ", "a", "\n", "b">>, permalink |-> "p2"],
     [channel |-> "general", user |-> "U2", text |-> <<>>, permalink |-> None],
     [channel |-> None, user |-> "U1", text |-> <<"bye">>, permalink |-> "p3"]}

InitFormat ==
    /\ PipelineInit
    /\ probe \in [fn : {"format_combined_results"},
                  results : SeqsUpTo(MatchKinds, MaxMatches),
                  done : {FALSE}, gist : {<<>>}, links : {<<>>}]

FormatProbe ==
    /\ probe.fn = "format_combined_results"
    /\ ~probe.done
    /\ probe' = [probe EXCEPT !.done = TRUE,
                              !.gist = format_combined_results(probe.results)[1],
                              !.links = format_combined_results(probe.results)[2]]
    /\ UNCHANGED pipeVars

NextFormat == FormatProbe

SpecFormat == InitFormat /\ [][NextFormat]_vars

(***************************************************************************)
(* Properties                                                              *)
(***************************************************************************)
\* the thread anchor of an event: its thread_ts, its own ts when it has none
ThreadAnchor(e) == IF e.thread_ts # None THEN e.thread_ts ELSE e.ts

EditOrDelete(e) == e.subtype \in {"message_changed", "message_deleted"}

Terminal == pc \in {"returned", "raised"}

PostSites == {"say_summary", "chat_postMessage", "say_feature_missing", "say_apology"}

CallsAt(site) == {i \in 1..Len(calls) : calls[i].site = site}
Called(site) == CallsAt(site) # {}
Failed(site) == \E i \in CallsAt(site) : ~calls[i].ok
Succeeded(site) == \E i \in CallsAt(site) : calls[i].ok

PostCalls == {i \in 1..Len(calls) : calls[i].site \in PostSites}

Min(a, b) == IF a < b THEN a ELSE b

\* C1: when every external call of a run fails, the run ends with exactly one
\* post, the generic apology, addressed to the event's thread anchor, and the
\* listener returns normally.
C1_AllFailOneApology ==
    (Terminal /\ calls # <<>> /\ \A i \in 1..Len(calls) : ~calls[i].ok) =>
        /\ pc = "returned"
        /\ Cardinality(PostCalls) = 1
        /\ \A i \in PostCalls :
              calls[i].site = "say_apology" /\ calls[i].ts = ThreadAnchor(event)

\* C2: an event whose subtype is message_changed or message_deleted makes no
\* external call and posts nothing; its run ends with zero posts.
C2_EditDeleteSilent ==
    EditOrDelete(event) => (pc = "returned" /\ calls = <<>> /\ posts = <<>>)

C2_Witness ==
    /\ pc = "returned"
    /\ event.listener = "app_mention"
    /\ event.subtype = "message_changed"
    /\ event_count = 1
    /\ calls = <<>>

\* C3: every message posted is addressed to the event's thread anchor
\* (thread_ts when present, ts otherwise), the anchor the thread-replies
\* fetch used.
C3_PostsToThreadAnchor ==
    \A i \in 1..Len(posts) :
        /\ posts[i].thread_ts = ThreadAnchor(event)
        /\ \A j \in CallsAt("conversations_replies") : calls[j].ts = posts[i].thread_ts

SummarizerSelected == pc = "summarize_thread" \/ Called("summarize_thread")
OtherSelected == pc = "get_workflows" \/ Called("admin_workflows_search")

\* C4: once the classification call has returned a text, exactly one
\* responder is selected: the summarizer iff the stripped text is
\* "Summarize Thread", the Other responder for every other text.
C4_OneResponder ==
    \A i \in CallsAt("classify") : calls[i].ok =>
        LET label == strip(calls[i].ret) = <<"Summarize", " ", "Thread">>
        IN /\ SummarizerSelected <=> label
           /\ OtherSelected <=> ~label
           /\ ~(SummarizerSelected /\ OtherSelected)

C4_Witness ==
    /\ Called("summarize_thread")
    /\ \E i \in CallsAt("classify") :
          calls[i].ok /\ calls[i].ret = <<" ", "Summarize", " ", "Thread", "\n">>

ProbeRejected ==
    probe.llm.ok /\ (strip(probe.llm.text) = <<>> \/ Contains(strip(probe.llm.text), FromMarker))

\* C5 as stated: refine_query never returns an empty string nor a string
\* containing "from:@"; a model output that is empty or contains the marker
\* yields the cleaned input.
C5_NeverEmptyNorRestricted ==
    (probe.fn = "refine_query" /\ probe.done) =>
        /\ probe.out # <<>>
        /\ ~Contains(probe.out, FromMarker)
        /\ ProbeRejected => probe.out = CleanedQuery(probe.user_query, probe.bot)

\* C5 amended: refine_query never returns a model output that is empty or
\* contains "from:@": when the call fails or its stripped output is empty or
\* contains the marker, the result is the cleaned input, otherwise it is the
\* stripped output; so the result is empty or contains the marker only when
\* the cleaned input is or does.
C5_RejectedOutputFallsBack ==
    (probe.fn = "refine_query" /\ probe.done) =>
        LET cleaned == CleanedQuery(probe.user_query, probe.bot)
        IN /\ (~probe.llm.ok \/ ProbeRejected) => probe.out = cleaned
           /\ (probe.llm.ok /\ ~ProbeRejected) => probe.out = strip(probe.llm.text)
           /\ (probe.out = <<>> \/ Contains(probe.out, FromMarker)) => probe.out = cleaned

C5_Witness ==
    /\ probe.fn = "refine_query"
    /\ probe.done
    /\ probe.llm.ok
    /\ Contains(probe.llm.text, FromMarker)
    /\ Contains(probe.user_query, MentionToken(probe.bot))
    /\ probe.out # <<>>
    /\ probe.out # probe.user_query

\* C6: for a raw text containing the bot's mention token, the text
\* refine_query returns does not contain the token, whatever the model does.
C6_MentionRemoved ==
    (probe.fn = "refine_query" /\ probe.done
        /\ Contains(probe.user_query, MentionToken(probe.bot))) =>
        ~Contains(probe.out, MentionToken(probe.bot))

\* C7: a failed thread-replies fetch, every other call succeeding, leaves an
\* empty context and is not surfaced: no apology is attempted and the run
\* ends with the responder's post.
C7_RepliesFailureDegrades ==
    (\E i \in CallsAt("conversations_replies") :
        ~calls[i].ok /\ \A j \in 1..Len(calls) : j # i => calls[j].ok) =>
        /\ pc # "say_apology"
        /\ ~Called("say_apology")
        /\ Terminal => (Len(posts) = 1 /\ posts[1].kind \in {"summary", "blocks"})

\* C8: a failed search call yields the empty match list and is never fatal:
\* the run goes on to the compose call, and when that call and the block post
\* succeed the post is the composed reply with the no-results reference text;
\* an apology is attempted only after a later call has failed.
C8_SearchFailureNotFatal ==
    \A i \in CallsAt("search_all") : ~calls[i].ok =>
        /\ slack_results = <<>>
        /\ i = Len(calls) => pc = "compose"
        /\ i < Len(calls) => calls[i + 1].site = "compose"
        /\ (Succeeded("compose") /\ Succeeded("chat_postMessage")) =>
              posts = <<[kind |-> "blocks",
                         text |-> cal_response \o <<"\n">> \o NoResultsLinks,
                         thread_ts |-> thread_ts]>>
        /\ Called("say_apology") => (Failed("compose") \/ Failed("say_feature_missing"))

C8_Witness ==
    /\ Failed("search_all")
    /\ pc = "returned"
    /\ Len(posts) = 1
    /\ posts[1].kind = "blocks"

\* reading a formatted result back
LinkStarts == {i \in 1..Len(probe.links) : probe.links[i] = "<"}
EntryStarts == {i \in 1..Len(probe.gist) : probe.gist[i] = "- Channel: #"}
Rank(S, i) == Cardinality({q \in S : q <= i})
ShownCount == Min(Len(probe.results), 5)
InteriorBreaks(text) == Cardinality({i \in 1..Len(strip(text)) : strip(text)[i] = "\n"})

\* the numbered links are those of the first min(n, 5) matches, in order
LinksAreTopMatches ==
    /\ Cardinality(LinkStarts) = ShownCount
    /\ \A i \in LinkStarts :
          LET j == Rank(LinkStarts, i)
              link == probe.results[j].permalink
          IN /\ probe.links[i + 1] = (IF link = None THEN "https://fake.link" ELSE link)
             /\ probe.links[i + 2] = "|["
             /\ probe.links[i + 3] = Numeral(j)

\* the gist entries are those of the first min(n, 5) matches, in order
EntriesAreTopMatches ==
    /\ Cardinality(EntryStarts) = ShownCount
    /\ \A i \in EntryStarts :
          LET j == Rank(EntryStarts, i)
              m == probe.results[j]
              body == strip(m.text)
          IN /\ probe.gist[i + 1] = m.channel
             /\ probe.gist[i + 3] = (IF m.user = None THEN "unknown" ELSE m.user)
             /\ SubSeq(probe.gist, i + 5, i + 4 + Len(body)) = body

NoResultsOutput ==
    /\ probe.gist = NoResultsGist
    /\ probe.links = NoResultsLinks
    /\ LinkStarts = {}

\* C9 as stated: min(n, 5) numbered links in match order, and a gist of
\* exactly min(n, 5) lines built from the same matches; the fixed texts for
\* n = 0.
C9_TopFiveLinksAndLines ==
    (probe.fn = "format_combined_results" /\ probe.done) =>
        IF probe.results = <<>> THEN NoResultsOutput
        ELSE /\ LinksAreTopMatches
             /\ EntriesAreTopMatches
             /\ Len(splitlines(probe.gist)) = ShownCount

RECURSIVE SumBreaks(_, _)
SumBreaks(results, k) ==
    IF k = 0 THEN 0 ELSE InteriorBreaks(results[k].text) + SumBreaks(results, k - 1)

\* C9 amended: min(n, 5) numbered links in match order; when each of the
\* first min(n, 5) matches names its channel the gist is min(n, 5) entries
\* built from those matches, joined by line breaks, an entry spanning one
\* line more for each line break inside its text, and otherwise the gist is
\* the fixed could-not-summarize text; the fixed texts for n = 0.
C9_TopFiveLinksAndEntries ==
    (probe.fn = "format_combined_results" /\ probe.done) =>
        IF probe.results = <<>> THEN NoResultsOutput
        ELSE /\ LinksAreTopMatches
             /\ IF \A j \in 1..ShownCount : probe.results[j].channel # None
                THEN /\ EntriesAreTopMatches
                     /\ Len(splitlines(probe.gist)) =
                            ShownCount + SumBreaks(probe.results, ShownCount)
                ELSE probe.gist = SummaryErrorGist

C9_Witness ==
    /\ probe.fn = "format_combined_results"
    /\ probe.done
    /\ Len(probe.results) > 5
    /\ \A j \in 1..Len(probe.results) : probe.results[j].channel # None
    /\ \E j \in 1..5 : InteriorBreaks(probe.results[j].text) > 0
    /\ probe.results[6].permalink # probe.results[5].permalink
    /\ Cardinality(LinkStarts) = 5

\* C10: at most one post succeeds per run; the feature-missing reply is
\* attempted only right after the block post failed; the apology is attempted
\* only when no earlier post succeeded; a successful post is the run's last
\* external call.
C10_AtMostOnePost ==
    /\ Len(posts) <= 1
    /\ Cardinality({i \in PostCalls : calls[i].ok}) = Len(posts)
    /\ \A i \in CallsAt("say_feature_missing") :
          i > 1 /\ calls[i - 1].site = "chat_postMessage" /\ ~calls[i - 1].ok
    /\ \A i \in CallsAt("say_apology") :
          \A j \in PostCalls : j < i => ~calls[j].ok
    /\ \A i \in PostCalls : calls[i].ok => (i = Len(calls) /\ pc = "returned")

C10_Witness ==
    /\ pc = "returned"
    /\ Failed("chat_postMessage")
    /\ Failed("say_feature_missing")
    /\ Succeeded("say_apology")
    /\ Len(posts) = 1

====
